---- MODULE Spec2Model ----
(***************************************************************************)
(* Channel / subscription / context lifecycle of the EPICS proxy layer.    *)
(*                                                                         *)
(* Modelled objects                                                        *)
(*   - class EpicsProxy of src/src/EpicsProxy.cpp (registry                *)
(*     m_chidEventIDMap, connect/disconnect, get_pv, monitor_pv, ...)      *)
(*   - caContext and EpicsProxy::destroy_context of                        *)
(*     src/include/EpicsProxy.h                                            *)
(*   - class PV of src/src/PV.cpp (channel, monitors, typed scalar and     *)
(*     array I/O with the values the server holds)                         *)
(*   - the callbacks of src/src/callbacks.cpp and                          *)
(*     src/src/epicsCallbacks.cpp, run by the library's callback thread    *)
(*   - the Channel Access client library, as far as the code uses it:      *)
(*     live channels, live subscriptions, the client context.  Clearing    *)
(*     a channel or destroying the context does not cascade to dependent   *)
(*     handles; the handles the code forgot stay in chLive / subLive.      *)
(*                                                                         *)
(* Every public operation is one atomic action.  An operation is built     *)
(* from operators over a "world" record w (transport, proxy, history,      *)
(* pending exception) so that the statements of a method compose in        *)
(* program order and an exception or an abort skips the rest.              *)
(***************************************************************************)
EXTENDS Integers, Sequences, FiniteSets, TLC

(* ------------------------------- bounds -------------------------------- *)
\* channel handles the allocator can hand out (handles are never reused)
MaxChid == 2
\* subscription handles the allocator can hand out
MaxEvid == 2
\* PV objects
MaxPV == 1

Chids == 1..MaxChid
Evids == 1..MaxEvid
PVs == 1..MaxPV
\* the null handle (chid and evid are pointers)
NULL == 0

\* process variable names: "ai" is served, "gone" is served by nobody (its
\* channel never connects)
Names == {"ai", "gone"}
\* the names typed I/O is exercised on: "li" is a long-integer record,
\* "wf" a char waveform (the "devices" array of src/testEpicsProxy.cpp) and
\* "empty" a char array that reports no elements
IONames == {"ai", "li", "wf", "empty", "gone"}
\* the names the array path is exercised on
ArrayNames == {"ai", "wf", "empty"}
Reachable == {"ai", "li", "wf", "empty"}
\* element count of the waveform record
MaxCount == 2

(* --------------------------- wire type tags ---------------------------- *)
DBR_STRING == "DBR_STRING"
DBR_SHORT == "DBR_SHORT"
\* db_access.h defines DBR_INT as DBR_SHORT
DBR_INT == DBR_SHORT
DBR_FLOAT == "DBR_FLOAT"
DBR_ENUM == "DBR_ENUM"
DBR_CHAR == "DBR_CHAR"
DBR_LONG == "DBR_LONG"
DBR_DOUBLE == "DBR_DOUBLE"

\* native field type the server reports for a name (ca_field_type)
NativeType(name) ==
    CASE name = "ai" -> DBR_DOUBLE
      [] name = "li" -> DBR_LONG
      [] name = "wf" -> DBR_CHAR
      [] name = "empty" -> DBR_CHAR
      [] OTHER -> "TYPENOTCONN"

\* native element count the server reports for a name
ElementCount(name) ==
    CASE name = "wf" -> MaxCount
      [] name = "empty" -> 0
      [] OTHER -> 1

\* outcomes of undefined behaviour, such as a request made through a handle
\* that was already cleared (the handle points to freed client memory): the
\* library rejects it and SEVCHK aborts the process, or the call goes
\* through unnoticed
UBOutcomes == {"abort", "continue"}

\* what a variable that was never assigned can hold
Indeterminate == {0, 77}
\* the numbers PV::write is handed, and the vectors PV::write_array is
IOValues == {1, 70000}
IOArrays == {<<>>, <<3, 4>>}

(* ------------------------------- state --------------------------------- *)
VARIABLES
    ca,       \* the Channel Access client library
    proxy,    \* the EpicsProxy object
    pvs,      \* the PV objects
    hist,     \* history of transport calls (what was invoked, in which order)
    last,     \* outcome of the last public operation
    process   \* "running", "aborted" (SEVCHK), "terminated" (std::terminate)

vars == <<ca, proxy, pvs, hist, last, process>>

\* thrown: the pending exception; ret: the value the operation returns;
\* ioOp/ioType: the data request (get/put) the operation issued, if any
\* ioDead: a transport call was made through a handle cleared before;
\* firstCleared: the first handle the operation passed to ca_clear_channel
\* accepted/data: the library accepted the get and this is what the server
\* sends for it; val: the value(s) the operation returns to its caller
World == [ca |-> ca, proxy |-> proxy, pvs |-> pvs, hist |-> hist,
          process |-> process, thrown |-> "none", ret |-> NULL,
          ioOp |-> "none", ioType |-> "-", ioDead |-> FALSE,
          firstCleared |-> NULL, accepted |-> FALSE, data |-> <<>>,
          val |-> <<>>]

\* the statements that follow are executed only while nothing was thrown
Ok(w) == w.process = "running" /\ w.thrown = "none"

Min(a, b) == IF a < b THEN a ELSE b

Range(f) == {f[i] : i \in DOMAIN f}

\* the elements of a set of handles in ascending order (std::map iteration)
RECURSIVE Ascending(_)
Ascending(S) ==
    IF S = {} THEN <<>>
    ELSE LET m == CHOOSE x \in S : \A y \in S : x <= y
         IN <<m>> \o Ascending(S \ {m})

\* std::remove + erase
Remove(s, x) == SelectSeq(s, LAMBDA y : y # x)

\* longest monitor list of a PV
MaxMonitors == 2

NoLast == [op |-> "none", obj |-> NULL, err |-> "none", issued |-> FALSE,
           dead |-> FALSE, req |-> "-", wire |-> "-", ret |-> NULL,
           cleared |-> FALSE, count |-> 0, val |-> <<>>, arg |-> <<>>,
           host |-> "-", made |-> FALSE, again |-> FALSE, status |-> "-",
           registered |-> FALSE]

\* the library's callback thread: idle, or inside msta_monitor_callback for
\* subscription e with notification status `status` and payload d_msta,
\* about to store NOMAD_STATUS into the proxy
CbIdle == [pc |-> "idle", e |-> NULL, status |-> "-", NOMAD_STATUS |-> 0,
           d_msta |-> 0]

(* --------------------- Channel Access client library ------------------- *)
\* ca_context_create: a second call in a thread that has a context is a no-op
ca_context_create(w) ==
    IF w.ca.ctxLive THEN w
    ELSE [w EXCEPT !.ca.ctxLive = TRUE, !.ca.ctxCreated = TRUE,
                   !.ca.ctxDestroyCalls = 0]

\* ca_context_destroy: counted per created context
ca_context_destroy(w) ==
    [w EXCEPT !.ca.ctxLive = FALSE,
              !.ca.ctxDestroyCalls = IF w.ca.ctxCreated THEN Min(@ + 1, 2) ELSE @]

\* ca_create_channel: the first CA call of a thread creates the context
\* implicitly; the channel exists (unconnected) as soon as the call returns
ca_create_channel(w, name, h) ==
    LET c == ca_context_create(w) IN
    [c EXCEPT !.ca.chAlloc = @ \cup {h}, !.ca.chLive = @ \cup {h},
              !.ca.chName[h] = name]

\* ca_pend_io(5.0) after channel creation: the channels of served names
\* connect when the server responds in time, otherwise ECA_TIMEOUT, a
\* warning that SEVCHK prints and ignores
ca_pend_io(w, responds) ==
    [w EXCEPT !.ca.chConn = @ \cup
        {h \in w.ca.chLive : w.ca.chName[h] \in Reachable /\ responds}]

ca_state(w, h) ==
    IF h \in w.ca.chConn THEN "cs_conn"
    ELSE IF h \in w.ca.chLive THEN "cs_never_conn" ELSE "cs_closed"

ca_field_type(w, h) ==
    IF h \in w.ca.chConn THEN NativeType(w.ca.chName[h]) ELSE "TYPENOTCONN"

\* ca_element_count: 0 while the channel is not connected
ca_element_count(w, h) ==
    IF h \in w.ca.chConn THEN ElementCount(w.ca.chName[h]) ELSE 0

\* the code executes undefined behaviour (a call through a cleared handle,
\* a read of an indeterminate value, a double delete)
Undefined(w, ub) ==
    [w EXCEPT !.process = IF ub = "abort" THEN "aborted" ELSE @]

\* ca_clear_channel
ca_clear_channel(w, h, ub) ==
    LET c == [w EXCEPT !.hist.doubleClear = @ \/ h \in w.hist.cleared,
                       !.hist.cleared = @ \cup {h},
                       !.firstCleared = IF @ = NULL THEN h ELSE @] IN
    IF h \in w.ca.chLive
    THEN [c EXCEPT !.ca.chLive = @ \ {h}, !.ca.chConn = @ \ {h}]
    ELSE [Undefined(c, ub) EXCEPT !.ioDead = TRUE]

\* ca_create_subscription / ca_add_masked_array_event
ca_create_subscription(w, h, e, ub) ==
    LET c == IF h \in w.ca.chLive THEN w
             ELSE [Undefined(w, ub) EXCEPT !.ioDead = TRUE]
    IN  IF Ok(c)
        THEN [c EXCEPT !.ca.subAlloc = @ \cup {e}, !.ca.subLive = @ \cup {e},
                       !.ca.subChan[e] = h]
        ELSE c

\* SEVCHK of a status other than ECA_NORMAL: a status of error severity
\* aborts the process, a warning is printed and execution continues
SEVCHK(w, sev) ==
    [w EXCEPT !.process = IF sev = "abort" THEN "aborted" ELSE @]

\* bytes of one element of a DBR type (dbr_size[] of db_access.h)
DbrSize(type) ==
    CASE type = DBR_STRING -> 40
      [] type = DBR_SHORT -> 2
      [] type = DBR_FLOAT -> 4
      [] type = DBR_ENUM -> 2
      [] type = DBR_CHAR -> 1
      [] type = DBR_LONG -> 4
      [] type = DBR_DOUBLE -> 8
      [] OTHER -> 0

\* the DBR types that carry a floating-point number
DbrFloating == {DBR_FLOAT, DBR_DOUBLE}
\* the unsigned integer DBR types (dbr_enum_t, dbr_char_t)
DbrUnsigned == {DBR_ENUM, DBR_CHAR}

\* 2^n
RECURSIVE Pow2(_)
Pow2(n) == IF n = 0 THEN 1 ELSE 2 * Pow2(n - 1)

\* the integer the low `bytes` bytes of x denote (two's complement); the
\* numbers used here are non-negative and below 2^31, so four bytes and
\* more hold them unchanged
Wrap(x, bytes, signed) ==
    IF bytes >= 4 THEN x
    ELSE LET m == Pow2(8 * bytes)
             r == x % m
         IN  IF signed /\ r >= m \div 2 THEN r - m ELSE r

\* the number an element of DBR type `type` holds when the bytes of the
\* integer x are handed over as that type
AsDbr(type, x) ==
    IF type \in DbrFloating THEN x
    ELSE Wrap(x, DbrSize(type), type \notin DbrUnsigned)

\* the library accepts a data request: live connected channel, a DBR type,
\* no more elements than the channel has
Acceptable(w, type, count, h) ==
    /\ h \in w.ca.chConn
    /\ DbrSize(type) > 0
    /\ count <= ElementCount(w.ca.chName[h])

\* ca_get / ca_array_get ; sev is what SEVCHK does with a rejection
ca_get(w, kind, type, count, h, sev) ==
    LET c == [w EXCEPT !.ioOp = kind, !.ioType = type] IN
    IF h \notin w.ca.chLive THEN [Undefined(c, sev) EXCEPT !.ioDead = TRUE]
    ELSE IF ~Acceptable(w, type, count, h) THEN SEVCHK(c, sev)
    ELSE [c EXCEPT !.accepted = TRUE,
                   !.data = [i \in 1..count |->
                               AsDbr(type, w.ca.val[w.ca.chName[h]][i])]]

\* ca_put / ca_array_put ; data are the elements as the library reads them
\* from the caller's memory.  The server converts them to the native type.
ca_put(w, kind, type, data, h, sev) ==
    LET c == [w EXCEPT !.ioOp = kind, !.ioType = type]
        name == w.ca.chName[h]
    IN  IF h \notin w.ca.chLive THEN [Undefined(c, sev) EXCEPT !.ioDead = TRUE]
        ELSE IF ~Acceptable(w, type, Len(data), h) THEN SEVCHK(c, sev)
        ELSE [c EXCEPT !.accepted = TRUE,
                       !.ca.val[name] =
                           [i \in DOMAIN @ |->
                              IF i <= Len(data)
                              THEN AsDbr(NativeType(name), data[i])
                              ELSE @[i]]]

\* ca_clear_subscription / ca_clear_event
ca_clear_subscription(w, e, ub) ==
    IF e \in w.ca.subLive
    THEN [w EXCEPT !.ca.subLive = @ \ {e}]
    ELSE [Undefined(w, ub) EXCEPT !.ioDead = TRUE]

(* ------------------------------ EpicsProxy ----------------------------- *)
\* throw std::runtime_error(...) after setting the error member
Throw(w, kind) == [w EXCEPT !.proxy.error = kind, !.thrown = kind]

\* a throw that does not set the error member
ThrowOnly(w, kind) == [w EXCEPT !.thrown = kind]

\* EpicsProxy::connect
connect(w) == ca_context_create(w)

\* EpicsProxy::disconnect
disconnect(w) == ca_context_destroy(w)

\* m_chidEventIDMap[k] = v (operator[] inserts the key when absent)
MapPut(m, k, v) == [x \in DOMAIN m \cup {k} |-> IF x = k THEN v ELSE m[x]]

\* m_chidEventIDMap.erase(k)
MapErase(m, k) == [x \in DOMAIN m \ {k} |-> m[x]]

\* EpicsProxy::get_pv ; h is the handle ca_create_channel hands out
get_pv(w, name, h, responds) ==
    LET c1 == ca_create_channel(w, name, h)
        c2 == ca_pend_io(c1, responds)
        c3 == [c2 EXCEPT !.ret = h]
    IN  IF h = NULL THEN Throw(c3, "ChannelNull")
        ELSE IF ca_state(c3, h) # "cs_conn" THEN Throw(c3, "NotConnected")
        ELSE IF h \notin DOMAIN c3.proxy.map
             THEN [c3 EXCEPT !.proxy.map = MapPut(@, h, <<>>),
                             !.hist.lastCreated = h]
             ELSE c3

\* EpicsProxy::get_chid_list : the keys of the std::map, in key order
get_chid_list(w) == Ascending(DOMAIN w.proxy.map)

\* the device name the proxy is constructed with (the default argument)
deviceName == ""

\* pvName.find(m_deviceName) != std::string::npos, for the names used here:
\* the empty string is found in every name
NameFind(pvName, m_deviceName) == m_deviceName = "" \/ m_deviceName = pvName

\* EpicsProxy::get_pv_list ; ca_name of a key whose channel was cleared
\* reads freed client memory
get_pv_list(w, ub) ==
    LET chidList == get_chid_list(w)
        c1 == IF Range(chidList) \subseteq w.ca.chLive THEN w
              ELSE [Undefined(w, ub) EXCEPT !.ioDead = TRUE]
        pvList == SelectSeq([i \in DOMAIN chidList |-> w.ca.chName[chidList[i]]],
                            LAMBDA pvName : NameFind(pvName, deviceName))
    IN  IF ~Ok(c1) THEN c1
        ELSE IF pvList = <<>>
        THEN [c1 EXCEPT !.proxy.error = "NoPVs", !.val = pvList]
        ELSE [c1 EXCEPT !.val = pvList]

\* EpicsProxy::unmonitor_pv
unmonitor_pv(w, e, ub) ==
    LET owners == {k \in DOMAIN w.proxy.map : e \in Range(w.proxy.map[k])}
        found == owners # {}
        m_chid == IF found THEN Head(Ascending(owners)) ELSE NULL
        c1 == ca_clear_subscription(w, e, ub)
    IN  IF ~Ok(c1) THEN c1
        ELSE IF e # NULL
        THEN \* ca_name(m_chid) reads an uninitialized chid when the event
             \* id is in no list
             LET c2 == IF found THEN c1 ELSE Undefined(c1, ub)
             IN  IF Ok(c2) THEN Throw(c2, "EventNotDestroyed") ELSE c2
        ELSE [c1 EXCEPT !.proxy.map =
                  MapPut(@, m_chid,
                         IF m_chid \in DOMAIN @ THEN Remove(@[m_chid], e)
                         ELSE <<>>)]

\* the loop of _clear_channel over a copy of the event id list
RECURSIVE UnmonitorEach(_, _, _)
UnmonitorEach(w, eventIDList, ub) ==
    IF eventIDList = <<>> \/ ~Ok(w) THEN w
    ELSE UnmonitorEach(unmonitor_pv(w, Head(eventIDList), ub),
                       Tail(eventIDList), ub)

\* EpicsProxy::_clear_channel
_clear_channel(w, m_chid, ub) ==
    LET c1 == IF m_chid \in DOMAIN w.proxy.map
              THEN UnmonitorEach(w, w.proxy.map[m_chid], ub)
              ELSE w
        c2 == IF Ok(c1) THEN ca_clear_channel(c1, m_chid, ub) ELSE c1
    IN  IF ~Ok(c2) THEN c2
        ELSE IF m_chid # NULL THEN Throw(c2, "ChannelNotCleared")
        ELSE [c2 EXCEPT !.proxy.map = MapErase(@, m_chid)]

\* EpicsProxy::clear_channel(name)
clear_channel(w, name, h, responds, ub) ==
    LET c1 == get_pv(w, name, h, responds)
    IN  IF Ok(c1) THEN _clear_channel(c1, c1.ret, ub) ELSE c1

\* EpicsProxy::monitor_pv ; e is the handle ca_create_subscription hands
\* out, g the value read where the code reads an indeterminate value
monitor_pv(w, m_chid, e, g, ub) ==
    IF ca_state(w, m_chid) # "cs_conn" THEN Throw(w, "NotConnected")
    ELSE IF m_chid \in DOMAIN w.proxy.map
    THEN \* return m_chidEventIDMap[m_chid][0]
         IF w.proxy.map[m_chid] # <<>>
         THEN [w EXCEPT !.ret = w.proxy.map[m_chid][1]]
         ELSE [Undefined(w, ub) EXCEPT !.ret = g]
    ELSE LET c1 == ca_create_subscription(w, m_chid, e, ub)
         IN  IF ~Ok(c1) THEN c1
             ELSE IF e = NULL THEN Throw(c1, "EventNull")
             ELSE \* control flows off the end of a function returning evid
                  [c1 EXCEPT !.proxy.map = MapPut(@, m_chid, <<e>>),
                             !.ret = g]

\* monitor_pv takes a new subscription handle on this path only
MonitorCreates(w, m_chid) ==
    ca_state(w, m_chid) = "cs_conn" /\ m_chid \notin DOMAIN w.proxy.map

\* EpicsProxy::allowed_types
allowed_types == {DBR_DOUBLE, DBR_FLOAT, DBR_ENUM, DBR_SHORT, DBR_CHAR,
                  DBR_STRING, DBR_LONG}

\* the status ca_pend_io returns
PendStatus(responds) == IF responds THEN "ECA_NORMAL" ELSE "ECA_TIMEOUT"

\* what a get leaves in the caller's n-element buffer after ca_pend_io: the
\* server's data, or the indeterminate content g the buffer had when the
\* get was rejected or the reply did not arrive in time
Fetched(w, responds, n, g) ==
    IF w.accepted /\ responds THEN w.data ELSE [i \in 1..n |-> g]

\* EpicsProxy::_get / _get_string : ca_get with the channel's field type
\* into a value of the dbr_..._t of that type, then ca_pend_io
_get(w, m_chid, responds, g, ub) ==
    LET c1 == ca_get(w, "get", ca_field_type(w, m_chid), 1, m_chid, ub)
    IN  IF Ok(c1)
        THEN [ca_pend_io(c1, responds) EXCEPT !.val = Fetched(c1, responds, 1, g)]
        ELSE c1

\* EpicsProxy::_read_pv
_read_pv(w, m_chid, responds, g, ub) ==
    LET field_type == ca_field_type(w, m_chid) IN
    IF field_type \notin allowed_types THEN Throw(w, "UnsupportedType")
    ELSE IF ca_element_count(w, m_chid) # 1 THEN Throw(w, "NotScalar")
    ELSE _get(w, m_chid, responds, g, ub)

\* EpicsProxy::read_pv
read_pv(w, name, h, responds, g, ub) ==
    LET c1 == get_pv(w, name, h, responds)
    IN  IF Ok(c1) THEN _read_pv(c1, c1.ret, responds, g, ub) ELSE c1

\* host types a std::any handed to write_pv can hold
ScalarHostTypes == {"double", "float", "unsigned short", "short",
                    "unsigned char", "std::string", "int"}
VectorHostTypes == {"vector<double>", "vector<float>",
                    "vector<unsigned short>", "vector<short>",
                    "vector<unsigned char>", "vector<std::string>",
                    "vector<int>"}

\* the host type std::any_cast<T> asks for under each data-type tag, and
\* the DBR type handed to _put
\* the values and data-type tags write_pv is called with here
WriteHosts == {"double", "int", "vector<double>"}
\* the number write_pv is handed (the elements, for a vector)
WriteValues == {5}
WriteTags == {"d", "l", "x"}
\* every kind of vector next to two scalars, and every data-type tag: the
\* seven documented tags and one that is none of them
AllHosts == VectorHostTypes \cup {"double", "int"}
AllTags == {"d", "f", "t", "s", "h", "A40_c", "l", "x"}

TagHost(tag) ==
    CASE tag = "d" -> "double"
      [] tag = "f" -> "float"
      [] tag = "t" -> "unsigned short"
      [] tag = "s" -> "short"
      [] tag = "h" -> "unsigned char"
      [] tag = "A40_c" -> "std::string"
      [] tag = "l" -> "int"
      [] OTHER -> "-"

TagDbr(tag) ==
    CASE tag = "d" -> DBR_DOUBLE
      [] tag = "f" -> DBR_FLOAT
      [] tag = "t" -> DBR_ENUM
      [] tag = "s" -> DBR_SHORT
      [] tag = "h" -> DBR_CHAR
      [] tag = "A40_c" -> DBR_STRING
      [] tag = "l" -> DBR_LONG
      [] OTHER -> "-"

\* EpicsProxy::_put / _put_string : ca_put with the type the caller names
_put(w, m_chid, value, m_field_type, responds, ub) ==
    LET c1 == ca_put(w, "put", m_field_type, <<AsDbr(m_field_type, value)>>,
                     m_chid, ub)
    IN  IF Ok(c1) THEN ca_pend_io(c1, responds) ELSE c1

\* T of a std::vector<T>
ElementHost(host) ==
    CASE host = "vector<double>" -> "double"
      [] host = "vector<float>" -> "float"
      [] host = "vector<unsigned short>" -> "unsigned short"
      [] host = "vector<short>" -> "short"
      [] host = "vector<unsigned char>" -> "unsigned char"
      [] host = "vector<std::string>" -> "std::string"
      [] host = "vector<int>" -> "int"
      [] OTHER -> host

\* a variant of EpicsProxy::_write_pv without the array test, which takes
\* the first element of a vector as the value ; C22 has to tell it from the
\* code
_write_pv_ArraysPassed(w, m_chid, host, value, m_dataType, responds, ub) ==
    IF ca_field_type(w, m_chid) \notin allowed_types
    THEN Throw(w, "UnsupportedType")
    ELSE IF TagDbr(m_dataType) = "-" THEN ThrowOnly(w, "UnsupportedType")
    ELSE IF ElementHost(host) # TagHost(m_dataType)
    THEN ThrowOnly(w, "bad_any_cast")
    ELSE _put(w, m_chid, value, TagDbr(m_dataType), responds, ub)

\* EpicsProxy::_write_pv ; host is the type held by the std::any
_write_pv(w, m_chid, host, value, m_dataType, responds, ub) ==
    IF ca_field_type(w, m_chid) \notin allowed_types
    THEN Throw(w, "UnsupportedType")
    ELSE IF host \in VectorHostTypes THEN Throw(w, "IsArray")
    ELSE IF TagDbr(m_dataType) = "-" THEN ThrowOnly(w, "UnsupportedType")
    ELSE IF host # TagHost(m_dataType) THEN ThrowOnly(w, "bad_any_cast")
    ELSE _put(w, m_chid, value, TagDbr(m_dataType), responds, ub)

\* EpicsProxy::write_pv
write_pv(w, name, h, responds, host, value, m_dataType, ub) ==
    LET c1 == get_pv(w, name, h, responds)
    IN  IF Ok(c1)
        THEN _write_pv(c1, c1.ret, host, value, m_dataType, responds, ub)
        ELSE c1

\* the loop of the destructor over get_chid_list()
RECURSIVE ClearEach(_, _, _)
ClearEach(w, chidList, ub) ==
    IF chidList = <<>> \/ ~Ok(w) THEN w
    ELSE ClearEach(_clear_channel(w, Head(chidList), ub), Tail(chidList), ub)

\* EpicsProxy::~EpicsProxy ; an exception leaving a destructor ends the
\* process (std::terminate)
DtorEpicsProxy(w, ub) ==
    LET c1 == ClearEach(w, get_chid_list(w), ub)
        c2 == [c1 EXCEPT !.hist.dtorFirst = c1.firstCleared]
    IN  IF c2.process # "running" THEN c2
        ELSE IF c2.thrown # "none"
        THEN [c2 EXCEPT !.process = "terminated", !.proxy.state = "terminated"]
        ELSE [disconnect(c2) EXCEPT !.proxy.state = "destroyed",
                                    !.hist.dtorClosed = TRUE]

\* caContext::caContext
caContext(w) == [ca_context_create(w) EXCEPT !.proxy.caContext_ptr = "valid"]

\* caContext::~caContext
DtorCaContext(w) == ca_context_destroy(w)

\* EpicsProxy::destroy_context : delete caContext_ptr, the pointer keeps
\* its value; deleting it again is undefined (the destructor runs again or
\* the allocator aborts)
destroy_context(w, ub) ==
    CASE w.proxy.caContext_ptr = "null" -> w
      [] w.proxy.caContext_ptr = "valid" ->
            [DtorCaContext(w) EXCEPT !.proxy.caContext_ptr = "dangling"]
      [] OTHER ->
            LET c1 == Undefined(w, ub)
            IN  IF Ok(c1) THEN DtorCaContext(c1) ELSE c1

(* ---------------------------------- PV -------------------------------- *)
\* PV::_create_channel(pend)
PV_create_channel(w, p, name, h, pend, responds) ==
    LET c1 == [ca_create_channel(w, name, h) EXCEPT !.pvs[p].channel = h]
    IN  IF pend THEN ca_pend_io(c1, responds) ELSE c1

\* PV::PV : the channel is created without waiting for the connection
PV(w, p, name, h) ==
    PV_create_channel([w EXCEPT !.pvs[p].state = "alive",
                                !.pvs[p].monitors = <<>>],
                      p, name, h, FALSE, FALSE)

\* PV::_clear_channel
PV_clear_channel_(w, p, responds, ub) ==
    ca_clear_channel(ca_pend_io(w, responds), w.pvs[p].channel, ub)

\* PV::clear_channel
PV_clear_channel(w, p, responds, ub) == PV_clear_channel_(w, p, responds, ub)

\* the loop of PV::remove_monitor
RECURSIVE ClearEvents(_, _, _)
ClearEvents(w, mons, ub) ==
    IF mons = <<>> \/ ~Ok(w) THEN w
    ELSE ClearEvents(ca_clear_subscription(w, Head(mons), ub), Tail(mons), ub)

\* PV::remove_monitor
PV_remove_monitor(w, p, ub) ==
    LET c1 == ClearEvents(w, w.pvs[p].monitors, ub)
    IN  IF Ok(c1) THEN [c1 EXCEPT !.pvs[p].monitors = <<>>] ELSE c1

\* PV::~PV
DtorPV(w, p, responds, ub) ==
    LET c1 == PV_remove_monitor(w, p, ub)
        c2 == IF Ok(c1) THEN PV_clear_channel(c1, p, responds, ub) ELSE c1
    IN  IF Ok(c2) THEN [c2 EXCEPT !.pvs[p].state = "destroyed"] ELSE c2

\* PV::add_monitor ; e is the handle the library hands out
PV_add_monitor(w, p, e, responds, ub) ==
    LET c1 == ca_create_subscription(w, w.pvs[p].channel, e, ub)
    IN  IF Ok(c1)
        THEN [ca_pend_io(c1, responds) EXCEPT !.pvs[p].monitors = Append(@, e)]
        ELSE c1

\* typeid(T).name() of the types PV::read / PV::write are instantiated for
TypeNames == {"d", "f", "i", "s", "c", "l", "m"}
\* the instantiations PV::write and PV::read are called with here
WriteTypeNames == {"d", "i", "l"}
ReadTypeNames == {"d", "i", "l", "c"}
\* the instantiations PV::read_array and PV::write_array are called with
ArrayTypeNames == {"c", "d"}

\* sizeof(T) of the instantiated types (LP64)
HostSize(type_name) ==
    CASE type_name = "d" -> 8
      [] type_name = "f" -> 4
      [] type_name = "i" -> 4
      [] type_name = "s" -> 2
      [] type_name = "c" -> 1
      [] type_name = "l" -> 8
      [] type_name = "m" -> 8
      [] OTHER -> 0

HostFloating == {"d", "f"}

\* elements of DBR type field_type land exactly on objects of type T
Fits(field_type, type_name) ==
    /\ DbrSize(field_type) = HostSize(type_name)
    /\ (field_type \in DbrFloating) = (type_name \in HostFloating)

\* the number an object of type T holds when it received the element x
AsHost(type_name, x) ==
    IF type_name \in HostFloating THEN x
    ELSE Wrap(x, HostSize(type_name), type_name # "m")

\* the T objects a get of field_type leaves behind: the elements when they
\* fit, otherwise objects that are partly written or written across
Landed(c, field_type, type_name, responds, n, g) ==
    IF Fits(field_type, type_name)
    THEN [i \in 1..n |-> AsHost(type_name, Fetched(c, responds, n, g)[i])]
    ELSE [i \in 1..n |-> g]

\* the library writes past the end of the caller's buffer
Overruns(c, field_type, type_name, responds, n) ==
    c.accepted /\ responds /\ n > 0
    /\ DbrSize(field_type) > HostSize(type_name)

\* new T[n] / delete[] : the arrays allocated and not yet released
NewArray(w) == [w EXCEPT !.hist.buffers = @ + 1]
DeleteArray(w) == [w EXCEPT !.hist.buffers = @ - 1]

\* PV::_get (PV::read)
PV_get(w, p, type_name, responds, g, ub) ==
    LET channel == w.pvs[p].channel
        field_type == ca_field_type(w, channel)
        c1 == ca_get(w, "get", field_type, 1, channel, ub)
        c2 == IF Ok(c1) THEN ca_pend_io(c1, responds) ELSE c1
        c3 == IF Ok(c2) /\ Overruns(c1, field_type, type_name, responds, 1)
              THEN Undefined(c2, ub) ELSE c2
    IN  IF Ok(c3)
        THEN [c3 EXCEPT !.val = Landed(c1, field_type, type_name, responds, 1, g)]
        ELSE c3

\* a variant of PV::_get_array that returns as soon as ca_pend_io reports
\* a timeout, before delete[] ; C19 has to tell it from the code
PV_get_array_EarlyReturn(w, p, type_name, responds, g, ub) ==
    LET channel == w.pvs[p].channel
        element_count == ca_element_count(w, channel)
        field_type == ca_field_type(w, channel)
        c0 == NewArray(w)
        c1 == ca_get(c0, "array_get", field_type, element_count, channel, ub)
        c2 == IF Ok(c1) THEN ca_pend_io(c1, responds) ELSE c1
    IN  IF Ok(c2) /\ responds
        THEN DeleteArray([c2 EXCEPT !.val = Landed(c1, field_type, type_name,
                                                  responds, element_count, g)])
        ELSE c2

\* a variant of PV::_get_array that sizes the result by what the server
\* sent rather than by the element count ; C20 has to tell it from the code
PV_get_array_SizedByReply(w, p, type_name, responds, g, ub) ==
    LET channel == w.pvs[p].channel
        element_count == ca_element_count(w, channel)
        field_type == ca_field_type(w, channel)
        c0 == NewArray(w)
        c1 == ca_get(c0, "array_get", field_type, element_count, channel, ub)
        c2 == IF Ok(c1) THEN ca_pend_io(c1, responds) ELSE c1
    IN  IF Ok(c2)
        THEN DeleteArray([c2 EXCEPT !.val =
                 IF c1.accepted /\ responds
                 THEN Landed(c1, field_type, type_name, responds,
                             element_count, g)
                 ELSE <<>>])
        ELSE c2

\* PV::_get_array (PV::read_array)
PV_get_array(w, p, type_name, responds, g, ub) ==
    LET channel == w.pvs[p].channel
        element_count == ca_element_count(w, channel)
        field_type == ca_field_type(w, channel)
        c0 == NewArray(w)
        c1 == ca_get(c0, "array_get", field_type, element_count, channel, ub)
        c2 == IF Ok(c1) THEN ca_pend_io(c1, responds) ELSE c1
        c3 == IF Ok(c2) /\ Overruns(c1, field_type, type_name, responds,
                                     element_count)
              THEN Undefined(c2, ub) ELSE c2
    IN  IF Ok(c3)
        THEN DeleteArray([c3 EXCEPT !.val = Landed(c1, field_type, type_name,
                                                  responds, element_count, g)])
        ELSE c3

\* PV::get_dbr_type
get_dbr_type(type_name) ==
    CASE type_name = "d" -> DBR_DOUBLE
      [] type_name = "f" -> DBR_FLOAT
      [] type_name = "i" -> DBR_INT
      [] type_name = "s" -> DBR_SHORT
      [] type_name = "c" -> DBR_CHAR
      [] type_name = "l" -> DBR_LONG
      [] type_name = "m" -> DBR_LONG
      [] type_name = "a" -> DBR_ENUM
      [] type_name = "std::string" -> DBR_STRING
      [] OTHER -> "throw"

\* PV::_put (PV::write) ; the library reads an element of field_type from
\* the address of value
PV_put(w, p, type_name, value, responds, ub) ==
    LET field_type == get_dbr_type(type_name) IN
    IF field_type = "throw" THEN ThrowOnly(w, "TypeNotSupported")
    ELSE LET c1 == ca_put(w, "put", field_type, <<AsDbr(field_type, value)>>,
                          w.pvs[p].channel, ub)
         IN  IF Ok(c1) THEN ca_pend_io(c1, responds) ELSE c1

\* PV::_put_array (PV::write_array) ; value[0] of an empty vector is
\* undefined
PV_put_array(w, p, type_name, value, responds, ub) ==
    LET c0 == NewArray(w)
        c1 == IF value = <<>> THEN Undefined(c0, ub) ELSE c0
        field_type == get_dbr_type(type_name)
    IN  IF ~Ok(c1) THEN c1
        ELSE IF field_type = "throw" THEN ThrowOnly(c1, "TypeNotSupported")
        ELSE LET c2 == ca_put(c1, "array_put", field_type,
                              [i \in 1..Len(value) |->
                                  AsDbr(field_type, value[i])],
                              w.pvs[p].channel, ub)
                 c3 == IF Ok(c2) THEN ca_pend_io(c2, responds) ELSE c2
             IN  IF Ok(c3) THEN DeleteArray(c3) ELSE c3

(* ------------------------------ behaviour ------------------------------ *)
Init ==
    /\ ca = [ctxLive |-> FALSE, ctxCreated |-> FALSE, ctxDestroyCalls |-> 0,
             chAlloc |-> {}, chLive |-> {}, chConn |-> {},
             chName |-> [h \in Chids |-> "-"],
             subAlloc |-> {}, subLive |-> {},
             subChan |-> [e \in Evids |-> NULL],
             val |-> [n \in IONames |-> [i \in 1..ElementCount(n) |-> 0]],
             cb |-> CbIdle]
    /\ proxy = [state |-> "alive", map |-> [k \in {} |-> <<>>], error |-> "",
                caContext_ptr |-> "null", currentStatus |-> 1,
                reading |-> FALSE]
    /\ pvs = [p \in PVs |-> [state |-> "unborn", channel |-> NULL,
                             monitors |-> <<>>]]
    /\ hist = [cleared |-> {}, doubleClear |-> FALSE,
               lastCreated |-> NULL, dtorFirst |-> NULL, dtorClosed |-> FALSE,
               buffers |-> 0]
    /\ last = NoLast
    /\ process = "running"

\* commit the world an operation produced
Commit(w) ==
    /\ ca' = w.ca
    /\ proxy' = w.proxy
    /\ pvs' = w.pvs
    /\ hist' = w.hist
    /\ process' = w.process

\* what the caller of an operation observes, and what the operation asked
\* of the transport (made: it created a subscription)
LastOf(op, obj, w) ==
    [NoLast EXCEPT !.op = op, !.obj = obj,
                   !.err = IF w.process = "aborted" THEN "abort" ELSE w.thrown,
                   !.issued = w.ioOp # "none", !.dead = w.ioDead,
                   !.req = w.ioType, !.made = w.ca.subAlloc # ca.subAlloc]

ProxyAlive == process = "running" /\ proxy.state = "alive"

\* the handle of a new channel: any handle not handed out before (the map
\* of EpicsProxy is ordered by handle, so the choice matters)
FreshChids == Chids \ ca.chAlloc

\* the handle of a new subscription: nothing depends on the order of
\* subscription handles, so the allocator hands them out in sequence
FreshEvids == {e \in Evids \ ca.subAlloc : \A f \in Evids \ ca.subAlloc : e <= f}

(* ------------------------- EpicsProxy operations ----------------------- *)
Connect ==
    /\ ProxyAlive
    /\ LET w == connect(World) IN
         Commit(w) /\ last' = LastOf("connect", NULL, w)

Disconnect ==
    /\ ProxyAlive
    /\ LET w == disconnect(World) IN
         Commit(w) /\ last' = LastOf("disconnect", NULL, w)

GetPv ==
    /\ ProxyAlive
    /\ \E name \in Names, h \in FreshChids, responds \in BOOLEAN :
         LET w == get_pv(World, name, h, responds) IN
           Commit(w) /\ last' = LastOf("get_pv", h, w)

GetPvList ==
    /\ ProxyAlive
    /\ \E ub \in UBOutcomes :
         LET w == get_pv_list(World, ub) IN
           /\ Commit(w)
           /\ last' = [LastOf("get_pv_list", NULL, w) EXCEPT !.val = w.val]

ClearChannel ==
    /\ ProxyAlive
    /\ \E name \in Names, h \in FreshChids, responds \in BOOLEAN,
          ub \in UBOutcomes :
         LET w == clear_channel(World, name, h, responds, ub) IN
           Commit(w) /\ last' = LastOf("clear_channel", h, w)

\* the chids a caller can hold: those get_pv returned, and a PV's channel
HeldChids ==
    DOMAIN proxy.map \cup {pvs[p].channel : p \in {q \in PVs : pvs[q].state = "alive"}}

MonitorPv ==
    /\ ProxyAlive
    /\ \E m_chid \in HeldChids \cap ca.chLive, e \in Evids,
          g \in Evids \cup {NULL},
          ub \in UBOutcomes :
         /\ MonitorCreates(World, m_chid) => e \in FreshEvids
         /\ LET w == monitor_pv(World, m_chid, e, g, ub) IN
              /\ Commit(w)
              /\ last' = [LastOf("monitor_pv", m_chid, w) EXCEPT
                             !.ret = w.ret,
                             !.wire = ca_field_type(World, m_chid),
                             !.registered = m_chid \in DOMAIN proxy.map,
                             !.again = m_chid \in DOMAIN proxy.map
                                       /\ proxy.map[m_chid] # <<>>]

UnmonitorPv ==
    /\ ProxyAlive
    /\ \E e \in ca.subAlloc, ub \in UBOutcomes :
         LET w == unmonitor_pv(World, e, ub) IN
           /\ Commit(w)
           /\ last' = [LastOf("unmonitor_pv", e, w) EXCEPT
                          !.again = e \notin ca.subLive]

ReadPv ==
    /\ ProxyAlive
    /\ \E name \in Names, h \in FreshChids, responds \in BOOLEAN,
          g \in Indeterminate, ub \in UBOutcomes :
         LET w == read_pv(World, name, h, responds, g, ub) IN
           /\ Commit(w)
           /\ last' = [LastOf("read_pv", h, w) EXCEPT
                          !.wire = ca_field_type(w, h),
                          !.count = ca_element_count(w, h)]

\* write_pv(name, std::any(value of type host), m_dataType) ; the library
\* hands out one of the handles `chids` for the channel
WritePvWith(host, m_dataType, chids) ==
    /\ ProxyAlive
    /\ \E name \in Names, h \in chids, responds \in BOOLEAN,
          value \in WriteValues, ub \in UBOutcomes :
         LET w == write_pv(World, name, h, responds, host, value,
                           m_dataType, ub) IN
           /\ Commit(w)
           /\ last' = [LastOf("write_pv", h, w) EXCEPT
                          !.wire = ca_field_type(w, h),
                          !.req = TagDbr(m_dataType),
                          !.host = host]

WritePv == \E host \in WriteHosts, m_dataType \in WriteTags :
              WritePvWith(host, m_dataType, FreshChids)

\* an allocator that hands out handles in sequence (write_pv does not
\* depend on the order of handles)
NextChid == {h \in FreshChids : \A k \in FreshChids : h <= k}

\* write_pv with every kind of value and every tag
WritePvAny == \E host \in AllHosts, m_dataType \in AllTags :
                 WritePvWith(host, m_dataType, NextChid)

DestroyProxy ==
    /\ ProxyAlive
    /\ \E ub \in UBOutcomes :
         LET w == DtorEpicsProxy(World, ub) IN
           Commit(w) /\ last' = LastOf("~EpicsProxy", NULL, w)

\* EpicsProxy::init opens the connection: caContext_ptr = new caContext
InitContext ==
    /\ ProxyAlive
    /\ proxy.caContext_ptr = "null"
    /\ LET w == caContext(World) IN
         Commit(w) /\ last' = LastOf("init", NULL, w)

DestroyContext ==
    /\ ProxyAlive
    /\ \E ub \in UBOutcomes :
         LET w == destroy_context(World, ub) IN
           Commit(w) /\ last' = LastOf("destroy_context", NULL, w)

(* ----------------------------- PV operations --------------------------- *)
PVAlive(p) == process = "running" /\ pvs[p].state = "alive"

Cleared(p) == pvs[p].channel \notin ca.chLive

LastOfPV(op, p, w) ==
    [LastOf(op, p, w) EXCEPT !.cleared = Cleared(p),
                             !.wire = ca_field_type(World, pvs[p].channel),
                             !.count = ca_element_count(World, pvs[p].channel)]

\* new PV(deviceName, fieldName)
PVCreate(name) ==
    /\ process = "running"
    /\ \E p \in PVs, h \in FreshChids :
         /\ pvs[p].state = "unborn"
         /\ \A q \in PVs : q < p => pvs[q].state # "unborn"
         /\ LET w == PV(World, p, name, h) IN
              Commit(w) /\ last' = LastOf("PV", p, w)

PVNew == \E name \in Names : PVCreate(name)

\* the PV of the status record
StatusPVNew == PVCreate("ai")

\* a PV for any of the records typed I/O is exercised on
IOPVNew == \E name \in IONames : PVCreate(name)

\* a PV for any of the records the array path is exercised on
ArrayPVNew == \E name \in ArrayNames : PVCreate(name)

PVDelete ==
    \E p \in PVs, responds \in BOOLEAN, ub \in UBOutcomes :
      /\ PVAlive(p)
      /\ LET w == DtorPV(World, p, responds, ub) IN
           Commit(w) /\ last' = LastOfPV("~PV", p, w)

PVClearChannel ==
    \E p \in PVs, responds \in BOOLEAN, ub \in UBOutcomes :
      /\ PVAlive(p)
      /\ LET w == PV_clear_channel(World, p, responds, ub) IN
           Commit(w) /\ last' = LastOfPV("clear_channel", p, w)

PVAddMonitor ==
    \E p \in PVs, e \in FreshEvids, responds \in BOOLEAN, ub \in UBOutcomes :
      /\ PVAlive(p)
      /\ Len(pvs[p].monitors) < MaxMonitors
      /\ LET w == PV_add_monitor(World, p, e, responds, ub) IN
           Commit(w) /\ last' = LastOfPV("add_monitor", p, w)

PVRemoveMonitor ==
    \E p \in PVs, ub \in UBOutcomes :
      /\ PVAlive(p)
      /\ LET w == PV_remove_monitor(World, p, ub) IN
           /\ Commit(w)
           /\ last' = [LastOfPV("remove_monitor", p, w) EXCEPT
                          !.again = pvs[p].monitors = <<>>]

PVRead ==
    \E p \in PVs, type_name \in ReadTypeNames, responds \in BOOLEAN,
       g \in Indeterminate, ub \in UBOutcomes :
      /\ PVAlive(p)
      /\ LET w == PV_get(World, p, type_name, responds, g, ub) IN
           /\ Commit(w)
           /\ last' = [LastOfPV("read", p, w) EXCEPT
                          !.host = type_name, !.val = w.val,
                          !.status = PendStatus(responds)]

PVReadArray ==
    \E p \in PVs, type_name \in ArrayTypeNames, responds \in BOOLEAN,
       g \in Indeterminate, ub \in UBOutcomes :
      /\ PVAlive(p)
      /\ LET w == PV_get_array(World, p, type_name, responds, g, ub) IN
           /\ Commit(w)
           /\ last' = [LastOfPV("read_array", p, w) EXCEPT
                          !.host = type_name, !.val = w.val,
                          !.status = PendStatus(responds)]

PVWrite ==
    \E p \in PVs, type_name \in WriteTypeNames, value \in IOValues,
       responds \in BOOLEAN, ub \in UBOutcomes :
      /\ PVAlive(p)
      /\ LET w == PV_put(World, p, type_name, value, responds, ub) IN
           /\ Commit(w)
           /\ last' = [LastOfPV("write", p, w) EXCEPT
                          !.host = type_name, !.arg = <<value>>,
                          !.req = get_dbr_type(type_name)]

PVWriteArray ==
    \E p \in PVs, type_name \in ArrayTypeNames, value \in IOArrays,
       responds \in BOOLEAN, ub \in UBOutcomes :
      /\ PVAlive(p)
      /\ LET w == PV_put_array(World, p, type_name, value, responds, ub) IN
           /\ Commit(w)
           /\ last' = [LastOfPV("write_array", p, w) EXCEPT
                          !.host = type_name, !.arg = value,
                          !.req = get_dbr_type(type_name)]

(* ------------------------------ callbacks ------------------------------ *)
\* the status of a notification
Statuses == {"ECA_NORMAL", "ECA_DISCONN"}
\* the MSTA words a notification carries: none of the tested bits, bit 1
\* (DONE), bit 6, bit 9 (PROBLEM), bits 1 and 9
MstaValues == {0, 2, 64, 512, 514}
\* the bits the translation tests, and a wider set of MSTA words: no bit,
\* each tested bit alone, bits the table does not translate (0, 3), two
\* tested bits (1 and 9), all fifteen bits
TestedBits == {1, 2, 6, 7, 9, 10, 12, 13, 14}
MstaWords == {0, 1, 8, 514, 32767} \cup {Pow2(k) : k \in TestedBits}

\* 1 << k for the bits of an MSTA word
Shift == [k \in 0..14 |-> Pow2(k)]

\* msta & (1 << k)
Bit(msta, k) == (msta \div Shift[k]) % 2 = 1

\* a variant of the chain in which every test is an if of its own, so that
\* the flags of all set bits accumulate ; C28 has to tell it from the code
NomadStatus_Accumulating(msta) ==
    IF \A k \in TestedBits : ~Bit(msta, k) THEN 1
    ELSE (IF Bit(msta, 9) \/ Bit(msta, 12) THEN 1 ELSE 0)
         + (IF Bit(msta, 6) \/ Bit(msta, 10) THEN 2 ELSE 0)
         + (IF Bit(msta, 2) THEN 4 ELSE 0)
         + (IF Bit(msta, 13) THEN 8 ELSE 0)
         + (IF Bit(msta, 1) \/ Bit(msta, 7) \/ Bit(msta, 14) THEN 16 ELSE 0)

\* the if / else-if chain of msta_monitor_callback
NomadStatus(msta) ==
    IF Bit(msta, 1) THEN 16
    ELSE IF Bit(msta, 2) THEN 4
    ELSE IF Bit(msta, 6) THEN 2
    ELSE IF Bit(msta, 7) THEN 16
    ELSE IF Bit(msta, 9) THEN 1
    ELSE IF Bit(msta, 10) THEN 2
    ELSE IF Bit(msta, 12) THEN 1
    ELSE IF Bit(msta, 13) THEN 8
    ELSE IF Bit(msta, 14) THEN 16
    ELSE 1

\* EpicsProxy::set_current_status
set_current_status(w, m_currentStatus) ==
    [w EXCEPT !.proxy.currentStatus = m_currentStatus]

\* EpicsProxy::get_current_status
get_current_status(w) == [w EXCEPT !.val = <<w.proxy.currentStatus>>]

\* msta_to_nomad_status(proxy, d_msta) : the same chain as the callback's
msta_to_nomad_status(w, d_msta) ==
    [set_current_status(w, NomadStatus(d_msta)) EXCEPT
        !.val = <<NomadStatus(d_msta)>>]

\* the status translation table of epicsCallbacks.cpp: the flag each MSTA
\* bit stands for, and the union of the flags of the bits set in msta (the
\* flags are distinct bits, so the union is their sum)
ERROR_STATUS == 1
RUNNING_STATUS == 2
HIGH_HARDSTOP == 4
LOW_HARDSTOP == 8
ACHIEVED_STATUS == 16

TableStatus(msta) ==
    (IF Bit(msta, 6) \/ Bit(msta, 9) \/ Bit(msta, 12)
        THEN ERROR_STATUS ELSE 0)
    + (IF Bit(msta, 10) THEN RUNNING_STATUS ELSE 0)
    + (IF Bit(msta, 2) THEN HIGH_HARDSTOP ELSE 0)
    + (IF Bit(msta, 13) THEN LOW_HARDSTOP ELSE 0)
    + (IF Bit(msta, 1) \/ Bit(msta, 7) \/ Bit(msta, 14)
        THEN ACHIEVED_STATUS ELSE 0)

\* monitorCallback(args, pEventID)
monitorCallback(w, status, e, ub) ==
    IF status # "ECA_NORMAL" THEN ca_clear_subscription(w, e, ub) ELSE w

\* msta_monitor_callback up to the call of set_current_status: args.dbr is
\* dereferenced whatever args.status is; with a status other than
\* ECA_NORMAL there is no payload behind it
msta_monitor_callback(w, e, status, d_msta, ub) ==
    LET c1 == IF status # "ECA_NORMAL" THEN Undefined(w, ub) ELSE w
    IN  IF Ok(c1)
        THEN [c1 EXCEPT !.ca.cb = [pc |-> "set_current_status", e |-> e,
                                   status |-> status,
                                   NOMAD_STATUS |-> NomadStatus(d_msta),
                                   d_msta |-> d_msta]]
        ELSE c1

\* a notification for a live subscription arrives and monitorCallback runs
MonitorCallback ==
    /\ process = "running"
    /\ ca.cb.pc = "idle"
    /\ \E e \in ca.subLive, status \in Statuses, ub \in UBOutcomes :
         LET w == monitorCallback(World, status, e, ub) IN
           /\ Commit(w)
           /\ last' = [LastOf("monitorCallback", e, w) EXCEPT !.status = status]

\* a notification for a live subscription arrives and msta_monitor_callback
\* runs up to its store into the proxy
MstaCallbackWith(d_msta) ==
    /\ process = "running"
    /\ ca.cb.pc = "idle"
    /\ \E e \in ca.subLive, status \in Statuses, ub \in UBOutcomes :
         LET w == msta_monitor_callback(World, e, status, d_msta, ub) IN
           /\ Commit(w)
           /\ last' = IF Ok(w) THEN last
                      ELSE [LastOf("msta_monitor_callback", e, w) EXCEPT
                               !.status = status]

MstaCallback == \E d_msta \in MstaValues : MstaCallbackWith(d_msta)

\* the live subscription with the lowest handle
FirstLive == {e \in ca.subLive : \A f \in ca.subLive : e <= f}

\* a notification for a live subscription arrives and msta_monitor_callback
\* runs from entry to return with no other thread in between (the callback
\* does not look at which subscription the notification is for)
MstaNotifyWith(d_msta) ==
    /\ process = "running"
    /\ ca.cb.pc = "idle"
    /\ \E e \in FirstLive, status \in Statuses, ub \in UBOutcomes :
         LET c1 == msta_monitor_callback(World, e, status, d_msta, ub)
             w == IF Ok(c1)
                  THEN [set_current_status(c1, c1.ca.cb.NOMAD_STATUS) EXCEPT
                           !.ca.cb = CbIdle]
                  ELSE c1
         IN
           /\ Commit(w)
           /\ last' = [LastOf("msta_monitor_callback", e, w) EXCEPT
                          !.status = status,
                          !.val = IF Ok(w) THEN <<c1.ca.cb.NOMAD_STATUS>>
                                  ELSE <<>>,
                          !.arg = IF Ok(w) THEN <<d_msta>> ELSE <<>>]

\* the same with any of the wider set of MSTA words
MstaNotifyAny == \E d_msta \in MstaWords : MstaNotifyWith(d_msta)

\* msta_monitor_callback stores the status and returns
MstaCallbackStore ==
    /\ process = "running"
    /\ ca.cb.pc = "set_current_status"
    /\ LET w == [set_current_status(World, ca.cb.NOMAD_STATUS) EXCEPT
                    !.ca.cb = CbIdle] IN
         /\ Commit(w)
         /\ last' = [LastOf("msta_monitor_callback", ca.cb.e, w) EXCEPT
                        !.status = ca.cb.status,
                        !.val = <<ca.cb.NOMAD_STATUS>>,
                        !.arg = <<ca.cb.d_msta>>]

\* a caller initializes the status: msta_to_nomad_status(proxy, d_msta)
MstaToNomadStatusWith(d_msta) ==
    /\ ProxyAlive
    /\ LET w == msta_to_nomad_status(World, d_msta) IN
         /\ Commit(w)
         /\ last' = [LastOf("msta_to_nomad_status", NULL, w) EXCEPT
                        !.val = w.val, !.arg = <<d_msta>>]

MstaToNomadStatus == \E d_msta \in MstaValues : MstaToNomadStatusWith(d_msta)

\* the same with any of the wider set of MSTA words
MstaToNomadStatusAny ==
    \E d_msta \in MstaWords : MstaToNomadStatusWith(d_msta)

\* a caller enters EpicsProxy::get_current_status
GetCurrentStatus ==
    /\ ProxyAlive
    /\ ~proxy.reading
    /\ proxy' = [proxy EXCEPT !.reading = TRUE]
    /\ UNCHANGED <<ca, pvs, hist, last, process>>

\* the caller loads currentStatus and returns
GetCurrentStatusLoad ==
    /\ ProxyAlive
    /\ proxy.reading
    /\ LET w == [get_current_status(World) EXCEPT !.proxy.reading = FALSE] IN
         /\ Commit(w)
         /\ last' = [LastOf("get_current_status", NULL, w) EXCEPT
                        !.val = w.val]

(* ------------------------------ transport ------------------------------ *)
\* the library's own thread completes the connection of a channel whose
\* name is served
CaConnected ==
    /\ process = "running"
    /\ \E h \in ca.chLive \ ca.chConn :
         /\ ca.chName[h] \in Reachable
         /\ ca' = [ca EXCEPT !.chConn = @ \cup {h}]
    /\ UNCHANGED <<proxy, pvs, hist, last, process>>

\* the EpicsProxy object and its callers; PVNew gives the caller a channel
\* that EpicsProxy did not create (PV::get_channel)
NextProxy ==
    \/ Connect \/ Disconnect \/ GetPv \/ ClearChannel \/ MonitorPv
    \/ UnmonitorPv \/ ReadPv \/ WritePv \/ DestroyProxy
    \/ InitContext \/ DestroyContext \/ GetPvList
    \/ PVNew \/ CaConnected

\* the PV objects and their callers
NextPV ==
    \/ PVNew \/ PVAddMonitor \/ PVRemoveMonitor
    \/ PVRead \/ PVReadArray \/ PVWrite \/ PVWriteArray
    \/ PVClearChannel \/ PVDelete
    \/ CaConnected

SpecProxy == Init /\ [][NextProxy]_vars

SpecPV == Init /\ [][NextPV]_vars

\* typed I/O of PV objects on records of several native types and sizes
NextIO ==
    \/ IOPVNew \/ PVRead \/ PVReadArray \/ PVWrite \/ PVWriteArray
    \/ PVClearChannel \/ CaConnected

SpecIO == Init /\ [][NextIO]_vars

\* the array path of PV objects alone
NextArray ==
    \/ ArrayPVNew \/ PVReadArray \/ PVWriteArray \/ PVClearChannel
    \/ CaConnected

SpecArray == Init /\ [][NextArray]_vars

\* notifications on the library's callback thread, concurrent with a caller
\* of the proxy
NextCb ==
    \/ PVNew \/ PVAddMonitor \/ CaConnected
    \/ MonitorCallback \/ MstaCallback \/ MstaCallbackStore
    \/ MstaToNomadStatus
    \/ GetCurrentStatus \/ GetCurrentStatusLoad

SpecCb == Init /\ [][NextCb]_vars

\* EpicsProxy::write_pv alone, with every kind of value and every tag
NextWrite == WritePvAny \/ CaConnected

SpecWrite == Init /\ [][NextWrite]_vars

\* the status translation alone: notifications of one status PV and direct
\* calls of msta_to_nomad_status
NextStatus ==
    \/ StatusPVNew \/ PVAddMonitor
    \/ MstaNotifyAny \/ MstaToNomadStatusAny

SpecStatus == Init /\ [][NextStatus]_vars

\* the by-name operations of EpicsProxy alone
NextByName == ReadPv \/ WritePv \/ ClearChannel \/ CaConnected

SpecByName == Init /\ [][NextByName]_vars
(* ------------------------------- claims -------------------------------- *)
\* the subscriptions live on channel h
SubsOn(h) == {e \in ca.subLive : ca.subChan[e] = h}

\* the channels held by PV objects; every other channel was created by
\* EpicsProxy::get_pv
PVChids == {pvs[p].channel : p \in PVs} \ {NULL}
DeviceChids == ca.chAlloc \ PVChids

\* the EpicsProxy destructor has run (to its end, or into std::terminate)
TornDown == proxy.state \in {"destroyed", "terminated"}

\* the operations of a PV that the caller can invoke after clear_channel
PVOps == {"read", "write", "read_array", "write_array", "add_monitor",
          "remove_monitor", "clear_channel"}

\* C1: no state is reachable in which a channel has been cleared while a
\* subscription created on it is still live (subscriptions are cancelled
\* before their channel is cleared, on every path that clears a channel).
C1_SubscriptionBeforeChannel ==
    \A e \in ca.subLive : ca.subChan[e] \in ca.chLive

\* C2: the CA context is never destroyed while a channel created under it
\* is still live: whenever no context is live, no channel is live.
C2_ChannelBeforeConnection ==
    ~ca.ctxLive => ca.chLive = {}

\* C3: a connection is closed at most once: ca_context_destroy is invoked at
\* most once per created context.
C3_ClosedAtMostOnce ==
    ca.ctxDestroyCalls <= 1

\* C4: subscribe is idempotent: a channel never carries a second live
\* subscription, however often subscribe is called on its Variable.
C4_SubscribeIdempotent ==
    \A h \in ca.chLive : Cardinality(SubsOn(h)) <= 1

\* C5: the channel handle of a Variable is cleared exactly once over the
\* Variable's life: ca_clear_channel is never invoked on a handle that was
\* already cleared.
C5_ClearedExactlyOnce ==
    ~hist.doubleClear

\* C6: after the channel of a Variable has been cleared, every later
\* operation on the Variable fails with Destroyed and makes no transport
\* call through the cleared handle.
C6_DestroyedAfterDestroy ==
    (last.op \in PVOps /\ last.cleared) =>
        (last.err = "Destroyed" /\ ~last.dead)

\* C7: a failed channel creation leaves no live channel behind: when get_pv
\* fails, the channel it asked the transport for is not live afterwards
\* (the number of live channels is what it was before the call).
C7_FailedCreateLeavesNoChannel ==
    (last.op = "get_pv" /\ last.err # "none") => last.obj \notin ca.chLive

\* C8: after the EpicsProxy destructor has run, no channel and no
\* subscription created by that device is live.
C8_TeardownLeavesNothing ==
    TornDown =>
        /\ DeviceChids \cap ca.chLive = {}
        /\ \A e \in ca.subLive : ca.subChan[e] \notin DOMAIN proxy.map

\* C9: teardown destroys the Variables in reverse creation order (the
\* channel created last is cleared first) and closes the connection only
\* after the last registered channel has been cleared.
C9_ReverseCreationOrder ==
    TornDown =>
        /\ hist.dtorFirst # NULL => hist.dtorFirst = hist.lastCreated
        /\ hist.dtorClosed => DOMAIN proxy.map \cap ca.chLive = {}

\* C10: a write whose requested type is not the channel's wire type fails
\* and performs no put.
C10_TypeMismatchNoPut ==
    (/\ last.op = "write_pv"
     /\ last.wire \in allowed_types /\ last.req \in allowed_types
     /\ last.req # last.wire) =>
        (last.err # "none" /\ ~last.issued)

\* the operations that read or write a value
ReadOps == {"read", "read_pv"}
WriteOps == {"write", "write_pv"}

\* C11: type dispatch is closed and fails closed: a read or write of a
\* channel whose wire type tag is outside the seven recognized kinds raises
\* an error and issues no get or put; a read of a channel whose tag is
\* inside the set asks the transport for exactly that type.
C11_DispatchFailsClosed ==
    /\ (last.op \in ReadOps \cup WriteOps /\ last.wire \notin allowed_types)
          => (last.err \notin {"none", "abort"} /\ ~last.issued)
    /\ (last.op \in ReadOps /\ last.wire \in allowed_types /\ last.issued)
          => last.req = last.wire

\* C12: a scalar read (EpicsProxy::read_pv, PV::read) of a connected channel
\* whose reported element count is not exactly one fails with NotScalar and
\* issues no get.
C12_ScalarReadOfArrayFails ==
    (last.op \in ReadOps /\ last.wire \in allowed_types /\ last.count # 1)
        => (last.err = "NotScalar" /\ ~last.issued)

\* the operations that subscribe
SubscribeOps == {"add_monitor", "monitor_pv"}

\* C13: subscribing (EpicsProxy::monitor_pv, PV::add_monitor) on a live
\* channel that is not connected fails with NotConnected and creates no
\* subscription.
C13_SubscribeNeedsConnection ==
    (last.op \in SubscribeOps /\ ~last.cleared /\ last.wire = "TYPENOTCONN")
        => (last.err = "NotConnected" /\ ~last.made)

\* the operations that unsubscribe
UnsubscribeOps == {"unmonitor_pv", "remove_monitor"}

\* C14: unsubscribe is idempotent: an unsubscribe of a subscription that
\* was unsubscribed before (EpicsProxy::unmonitor_pv), or a remove-all on
\* an empty list (PV::remove_monitor), raises no error and makes no
\* clear-subscription call for a handle that is already cleared.
C14_UnsubscribeIdempotent ==
    (last.op \in UnsubscribeOps /\ last.again)
        => (last.err = "none" /\ ~last.dead)

\* the callbacks a subscription can be registered with
CallbackOps == {"monitorCallback", "msta_monitor_callback"}

\* C15: a notification whose status is not normal makes the callback cancel
\* the subscription, and the callback neither decodes nor forwards a
\* payload; for every callback, msta_monitor_callback included.
C15_DisconnectCancelsSubscription ==
    (last.op \in CallbackOps /\ last.status # "ECA_NORMAL")
        => (last.err = "none" /\ last.obj \notin ca.subLive /\ last.val = <<>>)

\* C16: no state is reachable in which the callback thread is about to
\* store currentStatus while a caller is about to load it, the two accesses
\* not being ordered by any lock.
C16_NoUnsynchronizedAccess ==
    ~(ca.cb.pc = "set_current_status" /\ proxy.reading)

\* the channel the last create operation (PV constructor, get_pv) made
CreatedChid == IF last.op = "PV" THEN pvs[last.obj].channel ELSE last.obj

\* C17: when a create (PV constructor, EpicsProxy::get_pv) returns without
\* an error, the transport has confirmed the channel as connected; a create
\* the transport did not confirm in time reports an error.
C17_CreateConfirmsConnection ==
    (last.op \in {"PV", "get_pv"} /\ last.err = "none")
        => CreatedChid \in ca.chConn

\* typeid(T).name() of the host type that matches a wire type (the
\* dbr_..._t the EpicsProxy dispatch reads it into; char for DBR_CHAR)
HostOf(wire) ==
    CASE wire = DBR_DOUBLE -> "d"
      [] wire = DBR_FLOAT -> "f"
      [] wire = DBR_ENUM -> "t"
      [] wire = DBR_SHORT -> "s"
      [] wire = DBR_CHAR -> "c"
      [] wire = DBR_LONG -> "i"
      [] wire = DBR_STRING -> "std::string"
      [] OTHER -> "-"

\* a PV::write<T>(v) that succeeded on a connected channel whose wire type
\* matches T, directly followed by a PV::read<T>() of the same PV that
\* succeeded and was answered in time
WriteThenRead ==
    /\ last.op = "write" /\ last.err = "none"
    /\ last.wire \in allowed_types /\ last.host = HostOf(last.wire)
    /\ last'.op = "read" /\ last'.err = "none"
    /\ last'.obj = last.obj /\ last'.host = last.host
    /\ last'.status = "ECA_NORMAL"

\* C18: round trip: write(v) followed by read() returns exactly v, and the
\* put and the get name the same wire type.
C18_RoundTrip ==
    [][WriteThenRead => (last'.val = last.arg /\ last'.req = last.req)]_vars

\* C19: read_array releases the buffer it allocated on every path on which
\* it returns: after PV::read_array has returned, whether the get was
\* accepted, rejected or not answered in time, no array it allocated is
\* still unreleased.
C19_ReadArrayReleasesBuffer ==
    (last.op = "read_array" /\ process = "running") => hist.buffers = 0

\* read_array has returned from a failure path: the reply to the get for a
\* connected waveform did not arrive in time, or the get was rejected
C19_Witness ==
    /\ last.op = "read_array" /\ process = "running" /\ hist.buffers = 0
    /\ last.count = MaxCount /\ last.status = "ECA_TIMEOUT"

\* C20: PV::read_array<T> on a connected channel whose elements fit T
\* raises no error and returns a sequence with exactly as many elements as
\* the reported element count: the empty sequence for element count 0.
C20_ReadArrayLength ==
    (last.op = "read_array" /\ last.wire \in allowed_types
        /\ Fits(last.wire, last.host))
    => (last.err = "none" /\ Len(last.val) = last.count)

\* read_array has returned the empty sequence for a connected array with
\* element count 0, without an error
C20_Witness ==
    /\ last.op = "read_array" /\ last.wire = DBR_CHAR /\ last.host = "c"
    /\ last.count = 0 /\ last.err = "none" /\ last.val = <<>>

\* the operations of EpicsProxy a caller invokes
ProxyOps == {"connect", "disconnect", "get_pv", "get_pv_list",
             "clear_channel", "monitor_pv", "unmonitor_pv", "read_pv",
             "write_pv"}

\* C21: the last-error string is cleared by the next successful operation:
\* whenever the last operation on the proxy returned without an error,
\* get_error returns the empty string.
C21_ErrorClearedOnSuccess ==
    (last.op \in ProxyOps /\ last.err = "none") => proxy.error = ""

\* C22: arrays are not supported by EpicsProxy::write_pv: writing a value
\* that is a vector of any of the seven supported element types raises an
\* error and issues no put, whatever data-type tag is passed; likewise a
\* data-type tag outside {d, f, t, s, h, A40_c, l} raises an error and
\* issues no put.
C22_WritePvRejectsArrays ==
    (last.op = "write_pv"
        /\ (last.host \in VectorHostTypes \/ last.req \notin allowed_types))
    => (last.err \notin {"none", "abort"} /\ ~last.issued)

\* write_pv was handed a vector<double> with tag d for a connected
\* DBR_DOUBLE channel and rejected it as an array, without a put
C22_Witness ==
    /\ last.op = "write_pv" /\ last.host = "vector<double>"
    /\ last.wire = DBR_DOUBLE /\ last.req = DBR_DOUBLE
    /\ last.err = "IsArray" /\ ~last.issued

\* the operations that translate an MSTA word and store the result
TranslateOps == {"msta_monitor_callback", "msta_to_nomad_status"}

\* the last operation translated the MSTA word last.arg[1] of a normal
\* notification (or of a direct call) and stored last.val[1]
Translated ==
    /\ last.op \in TranslateOps /\ last.err = "none"
    /\ last.status # "ECA_DISCONN" /\ last.arg # <<>>

\* C23: MSTA status translation follows the documented table for every MSTA
\* value in which a bit of the table is set: the status stored in the proxy
\* is the union of the flags the table gives for the set bits (bits 1, 7,
\* 14 ACHIEVED_STATUS, bit 2 HIGH_HARDSTOP, bits 6, 9, 12 ERROR_STATUS, bit
\* 10 RUNNING_STATUS, bit 13 LOW_HARDSTOP).
C23_StatusFollowsTable ==
    (Translated /\ TableStatus(last.arg[1]) # 0)
        => (/\ last.val = <<TableStatus(last.arg[1])>>
            /\ proxy.currentStatus = TableStatus(last.arg[1]))

\* the live channels EpicsProxy created for a name
LiveFor(name) == {h \in DeviceChids \cap ca.chLive : ca.chName[h] = name}

\* C24: at most one live channel per variable name: after any sequence of
\* read_pv, write_pv and clear_channel calls by name the transport never
\* holds two live channels for the same name (a by-name operation reuses
\* the existing channel), and after clear_channel(name) there is no live
\* channel for that name.
C24_OneChannelPerName ==
    /\ \A name \in Names : Cardinality(LiveFor(name)) <= 1
    /\ (last.op = "clear_channel" /\ last.err # "abort")
          => LiveFor(ca.chName[last.obj]) = {}

\* C25: registry consistency: while the proxy is alive the keys of the
\* channel-to-subscription map are exactly the live channels created by this
\* proxy, and every handle stored under a key is a live subscription on that
\* channel (a channel cleared at the transport is no longer a key, a cleared
\* subscription is no longer stored).
C25_RegistryConsistent ==
    ProxyAlive =>
        /\ DOMAIN proxy.map = DeviceChids \cap ca.chLive
        /\ \A k \in DOMAIN proxy.map : \A e \in Range(proxy.map[k]) :
              e \in ca.subLive /\ ca.subChan[e] = k

\* the subscription handles stored in the registry
Stored == UNION {Range(proxy.map[k]) : k \in DOMAIN proxy.map}

\* C26: when the transport cleared the subscription or the channel it was
\* asked to clear (the handle was live), EpicsProxy::unmonitor_pv and
\* EpicsProxy::_clear_channel (reached through clear_channel) raise no error
\* and the handle is no longer in the registry.
C26_ClearReturnsNormally ==
    /\ (last.op = "unmonitor_pv" /\ ~last.again /\ ~last.dead)
          => (last.err = "none" /\ last.obj \notin Stored)
    /\ (last.op = "clear_channel" /\ last.obj \in hist.cleared /\ ~last.dead)
          => (last.err = "none" /\ last.obj \notin DOMAIN proxy.map)

\* C27: the first EpicsProxy::monitor_pv on a connected channel that get_pv
\* registered (no subscription stored yet) raises no error, creates a
\* subscription at the transport, stores its handle in the registry under
\* that channel and returns that handle; it never returns an element of an
\* empty subscription list.
C27_FirstMonitorSubscribes ==
    (/\ last.op = "monitor_pv" /\ last.registered /\ ~last.again
     /\ last.wire # "TYPENOTCONN")
    => (/\ last.err = "none" /\ last.made
        /\ last.obj \in DOMAIN proxy.map
        /\ proxy.map[last.obj] = <<last.ret>>
        /\ last.ret \in SubsOn(last.obj))

\* the single status flags
SingleFlags == {ERROR_STATUS, RUNNING_STATUS, HIGH_HARDSTOP, LOW_HARDSTOP,
                ACHIEVED_STATUS}

====
